---------------------------- MODULE Spec2Model ----------------------------
(***************************************************************************)
(* pluserable: the credential and activation-token lifecycle.               *)
(*                                                                         *)
(* State: the user table, the activation table, the clock, the registered  *)
(* User class and settings.  Operations: the views of views.py (register,  *)
(* forgot_password, reset_password), assignment to user.password, and the  *)
(* password check of data/models.py.                                       *)
(*                                                                         *)
(* External collaborators are abstracted as follows.                       *)
(*  - bag.text.hash.random_hash is a random source: every call is a        *)
(*    nondeterministic choice among the values of Codes (resp. Salts).     *)
(*  - cryptacular's bcrypt manager is an injective one-way encoding:       *)
(*    crypt.check(h, t) holds exactly when h encodes t.                    *)
(*  - an exception that leaves a view aborts the request's transaction:    *)
(*    the tables are unchanged and the result is "Error".                  *)
(***************************************************************************)
EXTENDS Integers, Sequences, FiniteSets, TLC

(* ------------------------------ bounds -------------------------------- *)
NUsers  == 2      \* rows the user table may hold
MaxActs == 2      \* activation rows ever inserted (autoincrement ids)
MaxTime == 3      \* the clock runs from 0 to MaxTime (days)

MaxWords == 3     \* CamelCase words in a class name
MaxGroups == 2    \* Group objects constructed
MaxMembers == 2   \* users appended to one list

(* ------------------------- program constants -------------------------- *)
ThreeDays == 3    \* timedelta(days=3)

(* --------------------------- value domains ---------------------------- *)
None  == "None"   \* Python's None, for string-valued attributes
NoId  == 0        \* Python's None, for id-valued attributes (ids start at 1)

UserIds   == 1..NUsers
ActIds    == 1..MaxActs
Reqs      == {1, 2}                 \* two requests in flight at most
Codes     == {"c1", "c2"}           \* outcomes of random_hash()
Salts     == {"s", "t"}             \* outcomes of random_hash(24)
Emails    == {"e1", "e2"}
Passwords == {"a", "b"}             \* non-empty plaintext passwords
Methods   == {"GET", "POST"}
GroupNames == {"foo", "bar"}
Members   == {"u1", "u2"}           \* the users a caller adds to a group
Datetimes == 1..(ThreeDays + 1)     \* datetime values given by a caller
UserClasses == {"UserBase", "NoUsernameMixin"}

VARIABLES
    users,        \* user table: id -> [email, salt, password, activation_id]
    activations,  \* activation table: id -> [code, valid_until, created_by]
    act_seq,      \* last autoincrement id given to an activation row
    now,          \* datetime.utcnow(), in days
    config,       \* the registered User class and the settings
    req,          \* reset_password requests in flight (interleaved runs)
    last,         \* the request handled by the last step, and its response
    consumed,     \* history: the codes whose redemption has succeeded
    plain,        \* history: the plaintext last assigned to each user
    groups        \* the Group objects and the list objects they refer to

vars == <<users, activations, act_seq, now, config, req, last, consumed,
          plain, groups>>

(* ----------------------------- cryptacular ---------------------------- *)
crypt_encode(text) == "$2a$" \o text

crypt_check(encoded, text) == encoded = crypt_encode(text)

(* ------------------------------ lookups ------------------------------- *)
\* ActivationMixin.get_by_code: the row with that code, or None.
ByCode(acts, code) ==
    IF \E a \in DOMAIN acts : acts[a].code = code
    THEN CHOOSE a \in DOMAIN acts :
            /\ acts[a].code = code
            /\ \A b \in DOMAIN acts : acts[b].code = code => a <= b
    ELSE NoId

\* mutant: the filter on the code is lost, any stored row is returned
get_by_code_any_row(code) ==
    IF DOMAIN activations = {} THEN NoId
    ELSE CHOOSE a \in DOMAIN activations :
            \A b \in DOMAIN activations : a <= b

get_by_code(code) == ByCode(activations, code)

\* NoUsernameMixin.get_by_activation: the first user that references the
\* activation, or None.
ByActivation(us, a) ==
    IF \E u \in DOMAIN us : us[u].activation_id = a
    THEN CHOOSE u \in DOMAIN us :
            /\ us[u].activation_id = a
            /\ \A v \in DOMAIN us : us[v].activation_id = a => u <= v
    ELSE NoId

\* mutant: the filter on activation_id is lost, the first user is returned
get_by_activation_first_user(a) == IF Len(users) = 0 THEN NoId ELSE 1

get_by_activation(a) == ByActivation(users, a)

\* str.lower / func.lower on an email
email_lower(email) == IF email = "E1" THEN "e1" ELSE email

\* mutant: the lookup finds no user
get_by_email_nobody(email) == NoId

\* NoUsernameMixin.get_by_email: the comparison is on the lowercased emails
get_by_email(email) ==
    IF \E u \in DOMAIN users : email_lower(users[u].email) = email_lower(email)
    THEN CHOOSE u \in DOMAIN users :
            /\ email_lower(users[u].email) = email_lower(email)
            /\ \A v \in DOMAIN users :
                   email_lower(users[v].email) = email_lower(email) => u <= v
    ELSE NoId

(* ----------------------------- activations ---------------------------- *)
\* mutant: the three days are counted from the epoch, not from utcnow()
three_days_from_epoch == ThreeDays

three_days_from_now == now + ThreeDays

\* ActivationBase.__init__ / the column defaults of ActivationMixin: the
\* objects Activation(code, valid_until, created_by) may be.  NoId stands
\* for an omitted valid_until.
\* mutant: the valid_until given by the caller is dropped
ActivationBase_default_only(code, valid_until, created_by) ==
    { [code        |-> c,
       valid_until |-> three_days_from_now,
       created_by  |-> created_by] :
      c \in (IF code = None THEN Codes ELSE {code}) }

ActivationBase(code, valid_until, created_by) ==
    { [code        |-> c,
       valid_until |-> IF valid_until = NoId THEN three_days_from_now
                                             ELSE valid_until,
       created_by  |-> created_by] :
      c \in (IF code = None THEN Codes ELSE {code}) }

\* unique=True on ActivationMixin.code: the flush of a new row fails when a
\* stored row has the same code.
\* mutant: the column is not unique, no flush fails
UniqueViolation_never(acts, activation) == FALSE

UniqueViolation(acts, activation) ==
    \E a \in DOMAIN acts : acts[a].code = activation.code

\* repository.delete_activation: the row is removed and the references to
\* it are cleared; a row already gone is not an error.
delete_activation(us, acts, a) ==
    [users |-> [u \in DOMAIN us |->
                   IF us[u].activation_id = a
                   THEN [us[u] EXCEPT !.activation_id = NoId] ELSE us[u]],
     activations |-> [b \in DOMAIN acts \ {a} |-> acts[b]]]

(* ----------------------------- credentials ---------------------------- *)
\* UserBase._hash_password asserts a salt; NoUsernameMixin._hash_password
\* generates one when missing.  The result is the set of (salt, hash) pairs
\* the assignment user.password = value may leave; empty when it raises
\* (the assertion, or TypeError from password + self.salt when the password
\* is not a string).
\* mutant: the salt is not mixed into the hashed text
UserBase_hash_password_unsalted(user, password) ==
    IF user.salt \in {None, ""} \/ password = None
    THEN {}
    ELSE { [salt |-> user.salt, password |-> crypt_encode(password)] }

UserBase_hash_password(user, password) ==
    IF user.salt \in {None, ""} \/ password = None
    THEN {}
    ELSE { [salt |-> user.salt,
            password |-> crypt_encode(password \o user.salt)] }

\* mutant: a new salt is generated on every call
NoUsernameMixin_hash_password_resalt(user, password) ==
    IF password = None
    THEN {}
    ELSE { [salt |-> s, password |-> crypt_encode(password \o s)] :
           s \in Salts }

\* mutant: no salt is generated when the salt is missing
NoUsernameMixin_hash_password_no_salt(user, password) ==
    IF password = None
    THEN {}
    ELSE { [salt |-> user.salt,
            password |-> crypt_encode(
                password \o (IF user.salt = None THEN "" ELSE user.salt))] }

NoUsernameMixin_hash_password(user, password) ==
    IF password = None
    THEN {}
    ELSE { [salt |-> s, password |-> crypt_encode(password \o s)] :
           s \in (IF user.salt \in {None, ""} THEN Salts ELSE {user.salt}) }

\* mutant: a hash already stored is kept, only the first assignment hashes
set_password_keeps_first(user, value) ==
    IF user.password # None
    THEN { [salt |-> user.salt, password |-> user.password] }
    ELSE IF config.User = "UserBase"
    THEN UserBase_hash_password(user, value)
    ELSE NoUsernameMixin_hash_password(user, value)

\* the password setter of the registered User class
set_password(user, value) ==
    IF config.User = "UserBase"
    THEN UserBase_hash_password(user, value)
    ELSE NoUsernameMixin_hash_password(user, value)

\* UserBase.check_password
\* password + self.salt raises TypeError when the salt is None
check_password_raises(user, password) ==
    /\ ~ (password \in {None, ""})
    /\ user.salt = None

\* mutant: the guard on an empty candidate is lost
check_password_no_guard(user, password) ==
    /\ password # None
    /\ user.password # None
    /\ user.salt # None
    /\ crypt_check(user.password, password \o user.salt)

check_password(user, password) ==
    IF password \in {None, ""}
    THEN FALSE
    ELSE /\ user.password # None
         /\ user.salt # None
         /\ crypt_check(user.password, password \o user.salt)

\* mutant: the candidate is not checked against the stored hash
validate_user_unchecked(u, password) ==
    IF u = NoId THEN "None"
    ELSE IF users[u].password = None THEN "False"
    ELSE IF password = None \/ users[u].salt = None THEN "Raises"
    ELSE "User"

\* NoUsernameMixin.validate_user, u the user found (NoId: none): "User"
\* when the user object is returned, "None", "False", or "Raises" when
\* password + user.salt raises TypeError.
validate_user(u, password) ==
    IF u = NoId THEN "None"
    ELSE IF users[u].password = None THEN "False"
    ELSE IF password = None \/ users[u].salt = None THEN "Raises"
    ELSE IF crypt_check(users[u].password, password \o users[u].salt)
    THEN "User"
    ELSE "None"

\* NoUsernameMixin.is_activated / UserBase.is_activated
is_activated(user) == user.activation_id = NoId

\* user.activation: the relationship loads the row activation_id refers to
user_activation(user) ==
    IF user.activation_id \in DOMAIN activations THEN user.activation_id
                                                  ELSE NoId

(* ------------------------------ responses ----------------------------- *)
\* What a step leaves in last: the request and its response.  A GET carries
\* no form, and the password is recorded when it was applied.
Response(op, method, valid, code, password, user, result) ==
    [op |-> op, method |-> method, valid |-> (method = "POST" /\ valid),
     code |-> code,
     password |-> IF result \in {"Ok", "True", "False", "Raises", "User",
                                 "None"}
                  THEN password ELSE None,
     user |-> user, result |-> result]

IdleReq == [pc |-> "idle", method |-> "GET", valid |-> FALSE, code |-> None,
            password |-> None, act |-> NoId, user |-> NoId, result |-> None]

(* ------------------------------- groups ------------------------------- *)
\* The list objects are kept by reference.  DefaultList is the list the
\* default users=[] of GroupBase.__init__ was evaluated to, once, when the
\* function was defined.
DefaultList == 0

NoGroups == [instances |-> << >>, lists |-> (DefaultList :> << >>)]

(* -------------------------------- Init -------------------------------- *)
Init ==
    /\ users = << >>
    /\ activations = << >>
    /\ act_seq = 0
    /\ now = 0
    /\ config \in [User : UserClasses, require_activation : BOOLEAN]
    /\ req = [r \in Reqs |-> IdleReq]
    /\ last = Response("init", "GET", FALSE, None, None, NoId, None)
    /\ consumed = {}
    /\ plain = << >>
    /\ groups = NoGroups


(* ------------------------------ register ------------------------------ *)
\* UserBase.__init__ / the declarative constructor with the password
\* setter: the user objects User(email=..., password=...) may be.
User_init(email, password) ==
    { [email |-> email, salt |-> o.salt, password |-> o.password,
       activation_id |-> NoId] :
      o \in (IF config.User = "UserBase"
             THEN UNION { UserBase_hash_password([salt |-> s], password) :
                          s \in Salts }
             ELSE NoUsernameMixin_hash_password([salt |-> None], password)) }

\* create_activation, and the issuing half of forgot_password: a new
\* Activation() is attached to the user and flushed.  The row the user
\* referenced before stays in the table.
\* mutant: a user that refers to an activation keeps that reference
issue_keeps_old(us, acts, u, activation) ==
    [users |-> IF us[u].activation_id = NoId
               THEN [us EXCEPT ![u].activation_id = act_seq + 1] ELSE us,
     activations |-> acts @@ ((act_seq + 1) :> activation)]

issue(us, acts, u, activation) ==
    [users |-> [us EXCEPT ![u].activation_id = act_seq + 1],
     activations |-> acts @@ ((act_seq + 1) :> activation)]

\* mutant: the activation is stored but not attached to the user
create_activation_detached(us, acts, u, activation) ==
    [users |-> us, activations |-> acts @@ ((act_seq + 1) :> activation)]

create_activation(us, acts, u, activation) == issue(us, acts, u, activation)

\* asbool(settings.get('pluserable.autologin', False))
autologin == IF "autologin" \in DOMAIN config THEN config.autologin ELSE FALSE

\* authenticated: the auth headers remember(request, userid) of the response
authenticated(userid) == userid

\* mutant: no auth headers while the activation is pending
register_headers_activated_only(u) ==
    IF autologin /\ ~ config.require_activation THEN authenticated(u)
                                                ELSE NoId

\* the headers of the response of a registration (lines 390-394)
register_headers(u) == IF autologin THEN authenticated(u) ELSE NoId

\* RegisterView.register with persist_user
register(method, valid, email, password) ==
    /\ Len(users) < NUsers
    /\ config.require_activation => act_seq < MaxActs
    /\ UNCHANGED <<now, config, groups, req, consumed>>
    /\ IF method = "GET" \/ ~valid \/ get_by_email(email) # NoId
       THEN /\ UNCHANGED <<users, activations, act_seq, plain>>
            /\ last' = Response("register", method, valid, None, password,
                                NoId, "Form") @@ [headers |-> NoId]
       ELSE \E user \in User_init(email, password) :
            LET u   == Len(users) + 1
                us1 == Append(users, user)
            IN  IF config.require_activation
                THEN \E activation \in ActivationBase(None, NoId, "web") :
                     IF UniqueViolation(activations, activation)
                     THEN /\ UNCHANGED <<users, activations, act_seq, plain>>
                          /\ last' = Response("register", method, valid,
                                 activation.code, password, NoId, "Error")
                                      @@ [headers |-> NoId]
                     ELSE LET d == create_activation(us1, activations, u,
                                                     activation)
                          IN  /\ users' = d.users
                              /\ plain' = Append(plain, password)
                              /\ activations' = d.activations
                              /\ act_seq' = act_seq + 1
                              /\ last' = Response("register", method, valid,
                                     activation.code, password, u, "Ok")
                                          @@ [headers |-> register_headers(u)]
                ELSE /\ users' = us1
                     /\ plain' = Append(plain, password)
                     /\ UNCHANGED <<activations, act_seq>>
                     /\ last' = Response("register", method, valid, None,
                                         password, u, "Ok")
                                 @@ [headers |-> register_headers(u)]

\* A user object built without a password (the declarative constructor, or
\* a subclass that skips UserBase.__init__): salt and hash are unset.
new_user(email) ==
    /\ Len(users) < NUsers
    /\ get_by_email(email) = NoId
    /\ users' = Append(users, [email |-> email, salt |-> None,
                               password |-> None, activation_id |-> NoId])
    /\ plain' = Append(plain, None)
    /\ last' = Response("new_user", "GET", FALSE, None, None,
                        Len(users) + 1, "Ok")
    /\ UNCHANGED <<activations, act_seq, now, config, groups, req, consumed>>

(* --------------------------- forgot_password -------------------------- *)
forgot_password(method, valid, email) ==
    /\ act_seq < MaxActs
    /\ UNCHANGED <<now, config, groups, req, consumed, plain>>
    /\ IF method = "GET" \/ ~valid
       THEN /\ UNCHANGED <<users, activations, act_seq>>
            /\ last' = Response("forgot_password", method, valid, None, None,
                                NoId, "Form")
       ELSE LET u == get_by_email(email) IN
            IF u = NoId
            THEN /\ UNCHANGED <<users, activations, act_seq>>
                 /\ last' = Response("forgot_password", method, valid, None,
                                     None, NoId, "Error")
            ELSE \E activation \in ActivationBase(None, NoId, "web") :
                 IF UniqueViolation(activations, activation)
                 THEN /\ UNCHANGED <<users, activations, act_seq>>
                      /\ last' = Response("forgot_password", method, valid,
                                     activation.code, None, u, "Error")
                 ELSE LET d == issue(users, activations, u, activation)
                      IN  /\ users' = d.users
                          /\ activations' = d.activations
                          /\ act_seq' = act_seq + 1
                          /\ last' = Response("forgot_password", method,
                                     valid, activation.code, None, u, "Ok")

(* ------------------- Activation(valid_until=...) ---------------------- *)
\* An activation built with the valid_until the caller gives (NoId: none
\* given), attached to the user u and flushed.
Activation_init(u, valid_until) ==
    /\ u \in DOMAIN users
    /\ act_seq < MaxActs
    /\ UNCHANGED <<now, config, groups, req, consumed, plain>>
    /\ \E activation \in ActivationBase(None, valid_until, "web") :
          IF UniqueViolation(activations, activation)
          THEN /\ UNCHANGED <<users, activations, act_seq>>
               /\ last' = Response("Activation_init", "POST", TRUE,
                              activation.code, None, u, "Error")
                           @@ [valid_until |-> valid_until]
          ELSE LET d == issue(users, activations, u, activation)
               IN  /\ users' = d.users
                   /\ activations' = d.activations
                   /\ act_seq' = act_seq + 1
                   /\ last' = Response("Activation_init", "POST", TRUE,
                                  activation.code, None, u, "Ok")
                               @@ [valid_until |-> valid_until]

\* activation.valid_until = valid_until, on the stored activation a
assign_valid_until(a, valid_until) ==
    /\ a \in DOMAIN activations
    /\ activations' = [activations EXCEPT ![a].valid_until = valid_until]
    /\ last' = Response("assign_valid_until", "POST", TRUE,
                        activations[a].code, None, NoId, "Ok")
                @@ [valid_until |-> valid_until, act |-> a]
    /\ UNCHANGED <<users, act_seq, now, config, req, consumed, plain,
                   groups>>

(* --------------------------- reset_password --------------------------- *)
\* reset_password after the two lookups: what the request leaves, given the
\* activation a and the user u it found.
\* mutant: the method is not looked at, a GET is handled as a POST
reset_password_outcomes_any_method(us, acts, method, valid, password, a, u) ==
    IF u = NoId \/ set_password(us[u], password) = {}
    THEN { [users |-> us, activations |-> acts, result |-> "Error"] }
    ELSE { LET d == delete_activation(
                      [us EXCEPT ![u].salt = o.salt,
                                 ![u].password = o.password], acts, a)
           IN  [users |-> d.users, activations |-> d.activations,
                result |-> "Ok"] :
           o \in set_password(us[u], password) }

\* mutant: the POST is applied although the form failed validation
reset_password_outcomes_unvalidated(us, acts, method, valid, password, a, u) ==
    IF method = "GET"
    THEN { [users |-> us, activations |-> acts,
            result |-> IF u = NoId THEN "Error" ELSE "Form"] }
    ELSE IF u = NoId \/ set_password(us[u], password) = {}
    THEN { [users |-> us, activations |-> acts, result |-> "Error"] }
    ELSE { LET d == delete_activation(
                      [us EXCEPT ![u].salt = o.salt,
                                 ![u].password = o.password], acts, a)
           IN  [users |-> d.users, activations |-> d.activations,
                result |-> "Ok"] :
           o \in set_password(us[u], password) }

reset_password_outcomes(us, acts, method, valid, password, a, u) ==
    IF method = "GET"
    THEN { [users |-> us, activations |-> acts,
            result |-> IF u = NoId THEN "Error" ELSE "Form"] }
    ELSE IF ~valid
    THEN { [users |-> us, activations |-> acts, result |-> "Form"] }
    ELSE IF u = NoId \/ set_password(us[u], password) = {}
    THEN { [users |-> us, activations |-> acts, result |-> "Error"] }
    ELSE { LET d == delete_activation(
                      [us EXCEPT ![u].salt = o.salt,
                                 ![u].password = o.password], acts, a)
           IN  [users |-> d.users, activations |-> d.activations,
                result |-> "Ok"] :
           o \in set_password(us[u], password) }

\* ForgotPasswordView.reset_password, a request run to completion
reset_password(method, valid, code, password) ==
    LET a == get_by_code(code) IN
    /\ UNCHANGED <<act_seq, now, config, groups, req>>
    /\ IF a = NoId
       THEN /\ UNCHANGED <<users, activations, consumed, plain>>
            /\ last' = Response("reset_password", method, valid, code,
                                password, NoId, "NotFound")
       ELSE LET u == get_by_activation(a) IN
            \E o \in reset_password_outcomes(users, activations, method,
                                             valid, password, a, u) :
                /\ users' = o.users
                /\ activations' = o.activations
                /\ consumed' = IF o.result = "Ok" THEN consumed \cup {code}
                                                  ELSE consumed
                /\ plain' = IF o.result = "Ok"
                            THEN [plain EXCEPT ![u] = password] ELSE plain
                /\ last' = Response("reset_password", method, valid, code,
                                    password, u, o.result)

\* request.registry.notify(PasswordResetEvent(...)): the response of a
\* request that notified the event
PasswordResetEvent(response) ==
    response.op = "reset_password" /\ response.result = "Ok"

(* ---------------------- user.password = value ------------------------- *)
assign_password(u, value) ==
    /\ u \in DOMAIN users
    /\ UNCHANGED <<activations, act_seq, now, config, groups, req, consumed>>
    /\ IF set_password(users[u], value) = {}
       THEN /\ UNCHANGED <<users, plain>>
            /\ last' = Response("assign_password", "POST", TRUE, None, value,
                                u, "Error")
       ELSE \E o \in set_password(users[u], value) :
            /\ users' = [users EXCEPT ![u].salt = o.salt,
                                      ![u].password = o.password]
            /\ plain' = [plain EXCEPT ![u] = value]
            /\ last' = Response("assign_password", "POST", TRUE, None, value,
                                u, "Ok")

(* ---------------------------- edit_profile ---------------------------- *)
\* ProfileView.edit_profile for the authenticated user u.  email and
\* password are the captured values; None or "" when the field is absent.
edit_profile(u, method, valid, email, password) ==
    /\ u \in DOMAIN users
    /\ UNCHANGED <<activations, act_seq, now, config, groups, req, consumed>>
    /\ IF method = "GET" \/ ~valid
       THEN /\ UNCHANGED <<users, plain>>
            /\ last' = Response("edit_profile", method, valid, None, None,
                                u, "Form") @@ [email |-> None]
       ELSE IF /\ ~ (email \in {None, ""})
               /\ ~ (get_by_email(email) \in {NoId, u})
       THEN /\ UNCHANGED <<users, plain>>
            /\ last' = Response("edit_profile", method, valid, None, None,
                                u, "Clash") @@ [email |-> email]
       ELSE LET us1 == IF email \in {None, ""} THEN users
                       ELSE [users EXCEPT ![u].email = email]
            IN  IF password \in {None, ""}
                THEN /\ users' = us1
                     /\ UNCHANGED plain
                     /\ last' = Response("edit_profile", method, valid,
                                   None, None, u,
                                   IF us1 = users THEN "Same" ELSE "Ok")
                                 @@ [email |-> email]
                ELSE IF set_password(us1[u], password) = {}
                THEN /\ UNCHANGED <<users, plain>>
                     /\ last' = Response("edit_profile", method, valid,
                                         None, None, u, "Error")
                                 @@ [email |-> email]
                ELSE \E o \in set_password(us1[u], password) :
                     /\ users' = [us1 EXCEPT ![u].salt = o.salt,
                                            ![u].password = o.password]
                     /\ plain' = [plain EXCEPT ![u] = password]
                     /\ last' = Response("edit_profile", method, valid,
                                         None, password, u, "Ok")
                                 @@ [email |-> email]

\* request.registry.notify(ProfileUpdatedEvent(...)): the response of a
\* request that notified the event
ProfileUpdatedEvent(response) ==
    response.op = "edit_profile" /\ response.result = "Ok"

\* a call of user.check_password(candidate)
check(u, candidate) ==
    /\ u \in DOMAIN users
    /\ UNCHANGED <<users, activations, act_seq, now, config, req, consumed,
                   plain, groups>>
    /\ last' = Response("check_password", "GET", TRUE, None, candidate, u,
                  IF check_password_raises(users[u], candidate) THEN "Raises"
                  ELSE IF check_password(users[u], candidate) THEN "True"
                  ELSE "False")

\* NoUsernameMixin.get_by_email_password (get_user)
get_by_email_password(handle, password) ==
    /\ UNCHANGED <<users, activations, act_seq, now, config, req, consumed,
                   plain, groups>>
    /\ last' = Response("get_by_email_password", "GET", TRUE, None, password,
                        get_by_email(handle),
                        validate_user(get_by_email(handle), password))

(* -------------------------------- login ------------------------------- *)
\* AuthView.login.  The CheckCredentials action is not part of these
\* sources: it either returns a stored user or raises
\* AuthenticationFailure.  The view writes to neither table.
login(method, valid) ==
    /\ UNCHANGED <<users, activations, act_seq, now, config, req, consumed,
                   plain, groups>>
    /\ IF method = "GET" \/ ~valid
       THEN last' = Response("login", method, valid, None, None, NoId,
                             "Form")
       ELSE \/ last' = Response("login", method, valid, None, None, NoId,
                                "Failure")
            \/ \E u \in DOMAIN users :
                  last' = Response("login", method, valid, None, None, u,
                                   "Authenticated")

(* ------------------------- BaseModel.__json__ ------------------------- *)
\* key.startswith(prefix)
startswith(key, prefix) ==
    Len(key) >= Len(prefix) /\ SubSeq(key, 1, Len(prefix)) = prefix

\* obj.isoformat()
isoformat(obj) == <<"isoformat", obj>>

\* The __dict__ of the user object u: the loaded column attributes and the
\* instance state of the ORM.  registered_date is a datetime.
DateKeys == {"registered_date"}

instance_dict(u) ==
    [key \in {"id", "email", "salt", "_password", "activation_id",
              "registered_date", "_sa_instance_state"} |->
        IF key = "id" THEN u
        ELSE IF key = "email" THEN users[u].email
        ELSE IF key = "salt" THEN users[u].salt
        ELSE IF key = "_password" THEN users[u].password
        ELSE IF key = "activation_id" THEN users[u].activation_id
        ELSE IF key = "registered_date" THEN 0
        ELSE "InstanceState"]

blacklist == {"password", "_password"}

\* mutant: the blacklist is not applied
BaseModel_json_no_blacklist(dict, convert_date) ==
    [key \in {k \in DOMAIN dict :
                /\ ~ startswith(k, "__")
                /\ ~ startswith(k, "_sa_")} |->
        IF key \in DateKeys /\ convert_date THEN isoformat(dict[key])
                                             ELSE dict[key]]

\* BaseModel.__json__, on the __dict__ of the object
BaseModel_json(dict, convert_date) ==
    [key \in {k \in DOMAIN dict :
                /\ ~ (k \in blacklist)
                /\ ~ startswith(k, "__")
                /\ ~ startswith(k, "_sa_")} |->
        IF key \in DateKeys /\ convert_date THEN isoformat(dict[key])
                                             ELSE dict[key]]

\* AuthView.login_ajax.  The CheckCredentials action is not part of these
\* sources: it either returns a stored user or raises
\* AuthenticationFailure.
login_ajax ==
    /\ UNCHANGED <<users, activations, act_seq, now, config, req, consumed,
                   plain, groups>>
    /\ \/ last' = Response("login_ajax", "POST", TRUE, None, None, NoId,
                            "Failure") @@ [user_json |-> << >>]
       \/ \E u \in DOMAIN users :
             last' = Response("login_ajax", "POST", TRUE, None, None, u,
                              "Ok")
                     @@ [user_json |-> BaseModel_json(instance_dict(u), TRUE)]

\* the clock advances
Tick ==
    /\ now < MaxTime
    /\ now' = now + 1
    /\ last' = Response("tick", "GET", FALSE, None, None, NoId, None)
    /\ UNCHANGED <<users, activations, act_seq, config, req, consumed, plain,
                   groups>>

(* ------------------------------- Spec --------------------------------- *)
\* The token lifecycle: the views that issue and redeem activations, each
\* request run to completion, and the clock.
Next ==
    \/ \E m \in Methods, v \in BOOLEAN, e \in Emails, p \in Passwords :
          register(m, v, e, p)
    \/ \E m \in Methods, v \in BOOLEAN, e \in Emails :
          forgot_password(m, v, e)
    \/ \E m \in Methods, v \in BOOLEAN, c \in Codes, p \in Passwords :
          reset_password(m, v, c, p)
    \/ login("GET", FALSE)
    \/ Tick

Spec == Init /\ [][Next]_vars

\* The credential of a user object: construction, assignment to
\* user.password, and check_password.
CredNext ==
    \/ \E e \in Emails, p \in Passwords : register("POST", TRUE, e, p)
    \/ \E e \in Emails : new_user(e)
    \/ \E u \in UserIds, p \in Passwords \cup {"", None} :
          assign_password(u, p)
    \/ \E u \in UserIds, p \in Passwords \cup {"", None} : check(u, p)
    \/ \E e \in Emails, p \in Passwords \cup {"", None} :
          get_by_email_password(e, p)
    \/ \E m \in Methods, v \in BOOLEAN : login(m, v)
    \/ login_ajax

CredSpec == Init /\ [][CredNext]_vars

\* Every way a stored password changes: the reset by code, the profile
\* form, and assignment to user.password.
ProfileNext ==
    \/ \E e \in Emails, p \in Passwords : register("POST", TRUE, e, p)
    \/ \E e \in Emails : new_user(e)
    \/ \E e \in Emails : forgot_password("POST", TRUE, e)
    \/ \E c \in Codes, p \in Passwords :
          reset_password("POST", TRUE, c, p)
    \/ \E u \in UserIds, m \in Methods, v \in BOOLEAN,
          e \in Emails \cup {None}, p \in Passwords \cup {""} :
          edit_profile(u, m, v, e, p)
    \/ \E u \in UserIds, p \in Passwords : assign_password(u, p)

ProfileSpec == Init /\ [][ProfileNext]_vars

\* The profile form alone: users register and edit their email, in either
\* case of the letters, and their password.
EditNext ==
    \/ \E e \in Emails, p \in Passwords : register("POST", TRUE, e, p)
    \/ \E u \in UserIds, m \in Methods, v \in BOOLEAN,
          e \in Emails \cup {"E1", "", None},
          p \in Passwords \cup {"", None} :
          edit_profile(u, m, v, e, p)

EditSpec == Init /\ [][EditNext]_vars

\* The validity of an activation: issued by register with the default,
\* built with a valid_until, or assigned one later, while the clock runs.
ActivationNext ==
    \/ \E e \in Emails, p \in Passwords : register("POST", TRUE, e, p)
    \/ \E u \in UserIds, dt \in Datetimes \cup {NoId} :
          Activation_init(u, dt)
    \/ \E a \in ActIds, dt \in Datetimes : assign_valid_until(a, dt)
    \/ Tick

ActivationSpec == Init /\ [][ActivationNext]_vars

\* Registration under every combination of the settings autologin and
\* require_activation.
RegisterInit ==
    /\ users = << >>
    /\ activations = << >>
    /\ act_seq = 0
    /\ now = 0
    /\ config \in [User : UserClasses, require_activation : BOOLEAN,
                    autologin : BOOLEAN]
    /\ req = [r \in Reqs |-> IdleReq]
    /\ last = Response("init", "GET", FALSE, None, None, NoId, None)
    /\ consumed = {}
    /\ plain = << >>
    /\ groups = NoGroups

RegisterNext ==
    \/ \E m \in Methods, v \in BOOLEAN, e \in Emails, p \in Passwords :
          register(m, v, e, p)
    \/ \E c \in Codes, p \in Passwords :
          reset_password("POST", TRUE, c, p)

RegisterSpec == RegisterInit /\ [][RegisterNext]_vars

\* Interleaved runs of reset_password: a request looks the activation and
\* its user up (lines 301-306), other requests may run, and then it handles
\* the method (lines 308-330).  Each slot of req serves one request.
reset_password_lookup(r, method, valid, code, password) ==
    LET a == get_by_code(code) IN
    /\ req[r].pc = "idle"
    /\ req' = [req EXCEPT ![r] =
                 [pc |-> IF a = NoId THEN "done" ELSE "found",
                  method |-> method, valid |-> (method = "POST" /\ valid),
                  code |-> code, password |-> password, act |-> a,
                  user |-> IF a = NoId THEN NoId ELSE get_by_activation(a),
                  result |-> IF a = NoId THEN "NotFound" ELSE None]]
    /\ UNCHANGED <<users, activations, act_seq, now, config, last, consumed,
                   plain, groups>>

reset_password_finish(r) ==
    /\ req[r].pc = "found"
    /\ \E o \in reset_password_outcomes(users, activations, req[r].method,
                    req[r].valid, req[r].password, req[r].act, req[r].user) :
          /\ users' = o.users
          /\ activations' = o.activations
          /\ consumed' = IF o.result = "Ok"
                         THEN consumed \cup {req[r].code} ELSE consumed
          /\ plain' = IF o.result = "Ok"
                      THEN [plain EXCEPT ![req[r].user] = req[r].password]
                      ELSE plain
          /\ req' = [req EXCEPT ![r].pc = "done", ![r].result = o.result]
    /\ UNCHANGED <<act_seq, now, config, groups, last>>

ConcNext ==
    \/ \E e \in Emails, p \in Passwords : register("POST", TRUE, e, p)
    \/ \E e \in Emails : forgot_password("POST", TRUE, e)
    \/ \E r \in Reqs, c \in Codes, p \in Passwords :
          reset_password_lookup(r, "POST", TRUE, c, p)
    \/ \E r \in Reqs : reset_password_finish(r)

ConcSpec == Init /\ [][ConcNext]_vars

\* Interleaved issues: forgot_password builds the Activation, and with it
\* the code (lines 268-272); other requests may run; then the flush inserts
\* the row (line 273), and the unique index decides.
forgot_password_build(r, email) ==
    LET u == get_by_email(email) IN
    /\ req[r].pc = "idle"
    /\ u # NoId
    /\ \E activation \in ActivationBase(None, NoId, "web") :
          req' = [req EXCEPT ![r] =
                    [pc |-> "built", method |-> "POST", valid |-> TRUE,
                     code |-> activation.code, password |-> None,
                     act |-> NoId, user |-> u, result |-> None]]
    /\ UNCHANGED <<users, activations, act_seq, now, config, last, consumed,
                   plain, groups>>

forgot_password_flush(r) ==
    LET activation == [code |-> req[r].code,
                       valid_until |-> three_days_from_now,
                       created_by |-> "web"]
    IN
    /\ req[r].pc = "built"
    /\ UniqueViolation(activations, activation) \/ act_seq < MaxActs
    /\ IF UniqueViolation(activations, activation)
       THEN /\ UNCHANGED <<users, activations, act_seq>>
            /\ req' = [req EXCEPT ![r].pc = "done", ![r].result = "Error"]
       ELSE LET d == issue(users, activations, req[r].user, activation)
            IN  /\ users' = d.users
                /\ activations' = d.activations
                /\ act_seq' = act_seq + 1
                /\ req' = [req EXCEPT ![r].pc = "done", ![r].result = "Ok",
                                      ![r].act = act_seq + 1]
    /\ UNCHANGED <<now, config, groups, last, consumed, plain>>

IssueNext ==
    \/ \E e \in Emails, p \in Passwords : register("POST", TRUE, e, p)
    \/ \E r \in Reqs, e \in Emails : forgot_password_build(r, e)
    \/ \E r \in Reqs : forgot_password_flush(r)
    \/ \E c \in Codes, p \in Passwords :
          reset_password("POST", TRUE, c, p)

IssueSpec == Init /\ [][IssueNext]_vars

(* ------------------------------ GroupBase ----------------------------- *)
\* the users of the group g: the list object self.users refers to
group_users(gs, g) == gs.lists[gs.instances[g].users]

\* GroupBase.__init__(name, description, users).  given says whether the
\* caller passes a users argument; the argument is then a new list object
\* holding members.  Without it self.users is the default list object.
GroupBase_init(name, description, given, members) ==
    /\ Len(groups.instances) < MaxGroups
    /\ UNCHANGED <<users, activations, act_seq, now, config, req, consumed,
                   plain>>
    /\ IF name = ""
       THEN /\ UNCHANGED groups
            /\ last' = [op |-> "GroupBase", group |-> NoId,
                        result |-> "Error"]
       ELSE LET g   == Len(groups.instances) + 1
                ref == IF given THEN g ELSE DefaultList
            IN  /\ groups' =
                      [instances |->
                          Append(groups.instances,
                                 [name |-> name, description |-> description,
                                  users |-> ref]),
                       lists |-> IF given
                                 THEN groups.lists @@ (ref :> members)
                                 ELSE groups.lists]
                /\ last' = [op |-> "GroupBase", group |-> g,
                            result |-> IF given THEN "Given" ELSE "Default"]

\* group.users.append(member)
users_append(g, member) ==
    /\ g \in DOMAIN groups.instances
    /\ Len(group_users(groups, g)) < MaxMembers
    /\ groups' = [groups EXCEPT !.lists[groups.instances[g].users] =
                                    Append(@, member)]
    /\ last' = [op |-> "users.append", group |-> g, result |-> member]
    /\ UNCHANGED <<users, activations, act_seq, now, config, req, consumed,
                   plain>>

GroupNext ==
    \/ \E name \in GroupNames \cup {""}, description \in {None, "bar"},
          given \in BOOLEAN, members \in {<< >>} \cup {<<m>> : m \in Members} :
          GroupBase_init(name, description, given, members)
    \/ \E g \in 1..MaxGroups, member \in Members : users_append(g, member)

GroupSpec == Init /\ [][GroupNext]_vars

(* ------------------------ BaseModel.__tablename__ --------------------- *)
\* A class name is a sequence of characters, written as CamelCase words.
Mixin == <<"M", "i", "x", "i", "n">>
Words == {Mixin, <<"S", "o", "m", "e">>, <<"M", "o", "d", "e", "l">>,
          <<"U">>, <<"x">>}
Upper == {"M", "S", "U"}

\* str.lower, on one character
lower(c) ==
    IF c = "M" THEN "m" ELSE IF c = "S" THEN "s" ELSE IF c = "U" THEN "u"
    ELSE c

RECURSIVE Flatten(_)
Flatten(ss) == IF ss = << >> THEN << >> ELSE Head(ss) \o Flatten(Tail(ss))

\* name.replace('Mixin', ''): the occurrences found by one scan from the
\* left are dropped
RECURSIVE replace_Mixin(_)
replace_Mixin(name) ==
    IF name = << >> THEN << >>
    ELSE IF Len(name) >= Len(Mixin) /\ SubSeq(name, 1, Len(Mixin)) = Mixin
    THEN replace_Mixin(SubSeq(name, Len(Mixin) + 1, Len(name)))
    ELSE <<Head(name)>> \o replace_Mixin(Tail(name))

\* re.sub(r'([A-Z])', lambda m: "_" + m.group(0).lower(), text)
RECURSIVE re_sub_upper(_)
re_sub_upper(text) ==
    IF text = << >> THEN << >>
    ELSE (IF Head(text) \in Upper THEN <<"_", lower(Head(text))>>
                                  ELSE <<Head(text)>>)
         \o re_sub_upper(Tail(text))

\* mutant: the substitution runs over the whole name, first character too
tablename_sub_whole(cls_name) ==
    LET name == replace_Mixin(cls_name) IN
    IF name = << >> THEN "Raises"
    ELSE <<lower(name[1])>> \o re_sub_upper(name)

\* BaseModel.__tablename__; name[0] raises IndexError on an empty name
tablename(cls_name) ==
    LET name == replace_Mixin(cls_name) IN
    IF name = << >> THEN "Raises"
    ELSE <<lower(name[1])>> \o re_sub_upper(Tail(name))

\* A model class is declared, and its table name is computed.
ClassInit ==
    /\ users = << >>
    /\ activations = << >>
    /\ act_seq = 0
    /\ now = 0
    /\ config \in [User : UserClasses, require_activation : {FALSE}]
    /\ req = [r \in Reqs |-> IdleReq]
    /\ \E n \in 1..MaxWords : \E words \in [1..n -> Words] :
          last = [op |-> "class", words |-> words, name |-> Flatten(words),
                  result |-> None]
    /\ consumed = {}
    /\ plain = << >>
    /\ groups = NoGroups

declare_tablename ==
    /\ last.op = "class"
    /\ last' = [last EXCEPT !.op = "__tablename__",
                            !.result = tablename(last.name)]
    /\ UNCHANGED <<users, activations, act_seq, now, config, req, consumed,
                   plain, groups>>

ClassSpec == ClassInit /\ [][declare_tablename]_vars

TypeOK ==
    /\ DOMAIN users \subseteq UserIds
    /\ DOMAIN activations \subseteq ActIds
    /\ act_seq \in 0..MaxActs
    /\ now \in 0..MaxTime
    /\ consumed \subseteq Codes

(* ====================================================================== *)
(*                               Properties                               *)
(* ====================================================================== *)
\* a stored activation has that code
Stored(code) == \E a \in DOMAIN activations : activations[a].code = code

\* a stored activation has that code and its valid_until is not in the future
ExpiredCode(code) ==
    \E a \in DOMAIN activations :
        activations[a].code = code /\ now >= activations[a].valid_until

\* the step just taken was a redemption: reset_password, POST, valid form
Redeem == last'.op = "reset_password" /\ last'.method = "POST" /\ last'.valid

\* C1: redeeming a code twice.  The first redemption of a stored code
\* succeeds, and every later redemption attempt with a code whose redemption
\* has succeeded returns NotFound.
C1_RedeemTwice ==
    [][ Redeem =>
          IF last'.code \in consumed
          THEN last'.result = "NotFound"
          ELSE (Stored(last'.code) => last'.result = "Ok") ]_vars

\* C2: of two interleaved redemptions of the same code, both with a valid
\* form, that looked the same activation up, exactly one succeeds and the
\* other is answered NotFound; they never both succeed.
C2_ExactlyOneSuccess ==
    \A r1 \in Reqs, r2 \in Reqs :
        (/\ r1 # r2
         /\ req[r1].pc = "done" /\ req[r2].pc = "done"
         /\ req[r1].code = req[r2].code
         /\ req[r1].act # NoId /\ req[r1].act = req[r2].act
         /\ req[r1].result = "Ok")
        => req[r2].result = "NotFound"

\* C3: redeeming a code whose valid_until is not in the future (now >=
\* valid_until) returns Expired and changes no password.
C3_ExpiredRejected ==
    [][ (Redeem /\ ExpiredCode(last'.code)) =>
          /\ last'.result = "Expired"
          /\ \A u \in DOMAIN users : users'[u].password = users[u].password
      ]_vars

\* C4: issuing a token for a user that has a pending one invalidates the old
\* token: after the issue no stored activation has the old code.
C4_ReissueInvalidatesOld ==
    [][ (/\ last'.op = "forgot_password" /\ last'.result = "Ok"
         /\ users[last'.user].activation_id \in DOMAIN activations) =>
          \A a \in DOMAIN activations' :
              activations'[a].code #
                  activations[users[last'.user].activation_id].code ]_vars

\* C5: reset_password with a code that no stored activation has answers
\* NotFound and leaves every user and every stored activation unchanged.
C5_UnknownCodeNotFound ==
    [][ (last'.op = "reset_password" /\ ~ Stored(last'.code)) =>
          /\ last'.result = "NotFound"
          /\ users' = users
          /\ activations' = activations ]_vars

C5_Witness ==
    /\ last.op = "reset_password" /\ last.result = "NotFound"
    /\ last.method = "POST" /\ last.valid
    /\ DOMAIN activations # {}
    /\ \E u \in DOMAIN users : users[u].activation_id # NoId

\* C6: a code that was consumed, or whose valid_until has passed, is never
\* redeemed again: no later reset_password with it succeeds.
C6_NeverValidAgain ==
    [][ (/\ last'.op = "reset_password"
         /\ (last'.code \in consumed \/ ExpiredCode(last'.code))) =>
          last'.result # "Ok" ]_vars

\* C7: a successful redemption changes the password of the user whose
\* activation has the code, and leaves every other user unchanged.
C7_RedeemActsOnOwner ==
    [][ (last'.op = "reset_password" /\ last'.result = "Ok") =>
          LET u == last'.user IN
          /\ u \in DOMAIN users
          /\ users[u].activation_id \in DOMAIN activations
          /\ activations[users[u].activation_id].code = last'.code
          /\ users'[u].password =
                 crypt_encode(last'.password \o users'[u].salt)
          /\ \A v \in DOMAIN users \ {u} : users'[v] = users[v] ]_vars

C7_Witness ==
    /\ last.op = "reset_password" /\ last.result = "Ok"
    /\ \E v \in DOMAIN users :
          /\ v # last.user
          /\ users[v].activation_id # NoId
          /\ users[v].password # users[last.user].password

\* C8: right after a non-empty password p is set (constructor or
\* assignment), check_password(p) is true.
C8_SetThenCheck ==
    \A u \in DOMAIN users :
        plain[u] \in Passwords =>
            /\ check_password(users[u], plain[u])
            /\ ~ check_password_raises(users[u], plain[u])

C8_Witness ==
    /\ last.op = "assign_password" /\ last.result = "Ok"
    /\ last.password \in Passwords
    /\ plain[last.user] = last.password

\* C9: with p1 the password set most recently, check_password(p2) is false
\* for every p2 # p1, after any sequence of password changes.
C9_OtherPasswordRejected ==
    \A u \in DOMAIN users :
        plain[u] # None =>
            \A p2 \in (Passwords \cup {""}) \ {plain[u]} :
                ~ check_password(users[u], p2)

C9_Witness ==
    /\ last.op = "check_password" /\ last.result = "False"
    /\ last.password \in Passwords
    /\ plain[last.user] \in Passwords \ {last.password}

\* C10: check_password with an empty or absent candidate is false and does
\* not raise, in every state of the credential.
C10_EmptyCandidateFalse ==
    \A u \in DOMAIN users :
        \A p \in {"", None} :
            /\ ~ check_password(users[u], p)
            /\ ~ check_password_raises(users[u], p)

C10_Witness ==
    /\ last.op = "check_password" /\ last.password = ""
    /\ last.result = "False"
    /\ users[last.user].password = None

\* C11: checking a non-empty candidate against a credential whose hash is
\* unset is false, without raising, in check_password and in validate_user.
C11_UnsetHashFalse ==
    \A u \in DOMAIN users :
        users[u].password = None =>
            \A p \in Passwords :
                /\ ~ check_password_raises(users[u], p)
                /\ ~ check_password(users[u], p)
                /\ validate_user(u, p) = "False"

\* C12: setting a password that is empty or not a string fails and stores
\* no hash: an assignment to user.password that succeeds was given a
\* non-empty string, and no credential holds the hash of an empty password.
C12_EmptyPasswordRejected ==
    [][ (last'.op = "assign_password" /\ last'.result = "Ok") =>
          /\ last'.password \in Passwords
          /\ \A u \in DOMAIN users' :
                 users'[u].password # None => plain'[u] \in Passwords
      ]_vars

\* C13: a credential that has a hash has a non-empty salt, and the hash
\* encodes (the password last set + that salt); UserBase._hash_password on a
\* credential without a salt aborts and stores nothing.
C13_HashHasSalt ==
    [][ /\ \A u \in DOMAIN users' :
              users'[u].password # None =>
                  /\ ~ (users'[u].salt \in {None, ""})
                  /\ plain'[u] # None
                  /\ users'[u].password =
                         crypt_encode(plain'[u] \o users'[u].salt)
        /\ (/\ last'.op = "assign_password"
            /\ config.User = "UserBase"
            /\ users[last'.user].salt = None) =>
               (last'.result = "Error" /\ users' = users) ]_vars

C13_Witness ==
    /\ config.User = "UserBase"
    /\ last.op = "assign_password" /\ last.result = "Error"
    /\ users[last.user].salt = None /\ users[last.user].password = None
    /\ \E v \in DOMAIN users :
          users[v].password # None /\ users[v].salt \in Salts

\* C14: a salt that is set never changes, whatever changes the password:
\* reset_password, edit_profile, or assignment to user.password.
C14_SaltImmutable ==
    [][ \A u \in DOMAIN users :
           users[u].salt # None => users'[u].salt = users[u].salt ]_vars

C14_Witness ==
    /\ last.op = "edit_profile" /\ last.result = "Ok"
    /\ last.password \in Passwords
    /\ users[last.user].password =
           crypt_encode(last.password \o users[last.user].salt)
    /\ consumed # {}

\* C15: an activation issued without a valid_until (create_activation in
\* register, forgot_password) has valid_until exactly three days after the
\* time of its creation.
C15_DefaultThreeDays ==
    [][ (/\ last'.op \in {"register", "forgot_password"}
         /\ act_seq' = act_seq + 1) =>
          /\ act_seq' \in DOMAIN activations'
          /\ activations'[act_seq'].valid_until = now + ThreeDays ]_vars

C15_Witness ==
    /\ last.op = "forgot_password" /\ last.result = "Ok"
    /\ now > 0
    /\ act_seq \in DOMAIN activations
    /\ activations[act_seq].code = last.code
    /\ activations[act_seq].valid_until = now + ThreeDays

\* C16: a valid_until given to the Activation constructor, or assigned to a
\* stored activation, is the value read back afterwards; the three-day
\* default does not replace it.
C16_ValidUntilOverride ==
    [][ /\ (/\ last'.op = "Activation_init" /\ last'.result = "Ok"
            /\ last'.valid_until # NoId) =>
               /\ act_seq' \in DOMAIN activations' \ DOMAIN activations
               /\ activations'[act_seq'].valid_until = last'.valid_until
        /\ last'.op = "assign_valid_until" =>
               /\ activations'[last'.act].valid_until = last'.valid_until
               /\ activations'[last'.act].code = activations[last'.act].code
      ]_vars

C16_Witness ==
    /\ last.op = "Activation_init" /\ last.result = "Ok"
    /\ last.valid_until \in Datetimes \ {now + ThreeDays}
    /\ act_seq \in DOMAIN activations
    /\ activations[act_seq].code = last.code
    /\ activations[act_seq].valid_until = last.valid_until

\* C17: the codes of the stored activations are pairwise distinct in every
\* reachable state, also when issues run interleaved.
C17_CodesDistinct ==
    \A a \in DOMAIN activations, b \in DOMAIN activations :
        a # b => activations[a].code # activations[b].code

C17_Witness ==
    /\ \E r1 \in Reqs, r2 \in Reqs :
          /\ req[r1].pc = "done" /\ req[r1].result = "Ok"
          /\ req[r2].pc = "done" /\ req[r2].result = "Error"
          /\ req[r1].code = req[r2].code
          /\ req[r1].act \in DOMAIN activations
    /\ Cardinality(DOMAIN activations) = 2

\* C18: an issue whose flush meets a uniqueness violation on the code
\* regenerates the code and flushes again (a bounded number of times)
\* instead of ending: the first violation a request meets leaves it with a
\* new code and the flush still to do.
C18_RetryOnViolation ==
    [][ \A r \in Reqs :
          (/\ req[r].pc = "built"
           /\ \E a \in DOMAIN activations :
                  activations[a].code = req[r].code
           /\ req'[r] # req[r]) =>
             /\ req'[r].pc = "built"
             /\ req'[r].code # req[r].code ]_vars

\* C19: the salts of the credentials are pairwise distinct, so two
\* credentials given the same plaintext never have the same hash.
C19_SaltsDistinct ==
    \A u \in DOMAIN users, v \in DOMAIN users :
        (u # v /\ users[u].salt # None /\ users[v].salt # None) =>
            /\ users[u].salt # users[v].salt
            /\ plain[u] = plain[v] => users[u].password # users[v].password

WithoutMixin(words) ==
    Flatten(SelectSeq(words, LAMBDA w : w # Mixin))

\* C21: the table name is the class name with Mixin removed, its first
\* character lowercased and every later uppercase letter replaced by "_"
\* and its lowercase form.
C21_Tablename ==
    (last.op = "__tablename__" /\ WithoutMixin(last.words) # << >>) =>
        LET n == WithoutMixin(last.words) IN
        last.result =
            Flatten([i \in 1..Len(n) |->
                       IF i = 1 THEN <<lower(n[i])>>
                       ELSE IF n[i] \in Upper THEN <<"_", lower(n[i])>>
                       ELSE <<n[i]>>])

C21_Witness ==
    /\ last.op = "__tablename__"
    /\ last.name = <<"S", "o", "m", "e", "M", "o", "d", "e", "l">>
    /\ last.result = <<"s", "o", "m", "e", "_", "m", "o", "d", "e", "l">>

\* C22: is_activated is true exactly when the user has no activation; a
\* user registered with require_activation is not activated after register,
\* and a user stops being unactivated only when its activation is removed.
C22_IsActivated ==
    [][ /\ \A u \in DOMAIN users' :
              is_activated(users'[u]) <=>
                  ~ (users'[u].activation_id \in DOMAIN activations')
        /\ (/\ last'.op = "register" /\ last'.result = "Ok"
            /\ config.require_activation) =>
               users'[last'.user].activation_id \in DOMAIN activations'
        /\ \A u \in DOMAIN users :
              (~ is_activated(users[u]) /\ is_activated(users'[u])) =>
                  ~ (users[u].activation_id \in DOMAIN activations') ]_vars

C22_Witness ==
    /\ config.require_activation
    /\ last.op = "reset_password" /\ last.result = "Ok"
    /\ is_activated(users[last.user])
    /\ user_activation(users[last.user]) = NoId
    /\ \E v \in DOMAIN users :
          ~ is_activated(users[v]) /\ user_activation(users[v]) # NoId

C24_InvalidFormConsumesNothing ==
    [][ (/\ last'.op = "reset_password" /\ last'.method = "POST"
         /\ ~ last'.valid /\ Stored(last'.code)) =>
          /\ last'.result = "Form"
          /\ users' = users
          /\ activations' = activations
          /\ \E a \in DOMAIN activations' :
                 activations'[a].code = last'.code
          /\ consumed' = consumed
          /\ ~ PasswordResetEvent(last') ]_vars

C24_Witness ==
    /\ last.op = "reset_password" /\ last.method = "POST" /\ ~ last.valid
    /\ last.result = "Form"
    /\ \E u \in DOMAIN users :
          /\ users[u].activation_id \in DOMAIN activations
          /\ activations[users[u].activation_id].code = last.code

\* C25: a GET to login, register, forgot_password or reset_password changes
\* nothing: no user and no activation is created, no activation is deleted,
\* no password changes, and no code is consumed.
C25_GetReadOnly ==
    [][ (/\ last'.method = "GET"
         /\ last'.op \in {"login", "register", "forgot_password",
                          "reset_password"}) =>
          /\ users' = users
          /\ activations' = activations
          /\ act_seq' = act_seq
          /\ consumed' = consumed
          /\ plain' = plain ]_vars

C25_Witness ==
    /\ last.op = "reset_password" /\ last.method = "GET"
    /\ last.result = "Form"
    /\ last.user \in DOMAIN users
    /\ users[last.user].activation_id \in DOMAIN activations
    /\ activations[users[last.user].activation_id].code = last.code

\* C26: the response of register carries auth headers, for the new user,
\* exactly when the registration succeeded and autologin is on, whatever
\* require_activation is.
C26_AutologinAuthenticates ==
    [][ last'.op = "register" =>
          /\ last'.headers # NoId <=>
                 (last'.result = "Ok" /\ "autologin" \in DOMAIN config
                  /\ config.autologin)
          /\ last'.headers # NoId =>
                 (last'.headers = last'.user
                  /\ last'.user = Len(users')) ]_vars

\* both settings on: the new user is authenticated while its activation is
\* pending
C26_Witness ==
    /\ "autologin" \in DOMAIN config
    /\ config.autologin /\ config.require_activation
    /\ last.op = "register" /\ last.result = "Ok"
    /\ last.headers = last.user
    /\ ~ is_activated(users[last.user])

\* C27: the JSON form of a user returned by login_ajax has no key
\* "password" or "_password", and the password hash is the value of none
\* of its string-valued keys.
C27_JsonWithoutHash ==
    [][ (last'.op = "login_ajax" /\ last'.result = "Ok") =>
          /\ ~ ("password" \in DOMAIN last'.user_json)
          /\ ~ ("_password" \in DOMAIN last'.user_json)
          /\ \A key \in DOMAIN last'.user_json \cap {"email", "salt"} :
                 users[last'.user].password # None =>
                     last'.user_json[key] # users[last'.user].password
      ]_vars

C27_Witness ==
    /\ last.op = "login_ajax" /\ last.result = "Ok"
    /\ users[last.user].password # None
    /\ "email" \in DOMAIN last.user_json
    /\ last.user_json["email"] = users[last.user].email

C29_GroupsIndependent ==
    [][ (/\ last'.op = "users.append"
         /\ groups.instances[last'.group].users = DefaultList) =>
          \A h \in DOMAIN groups.instances \ {last'.group} :
              group_users(groups', h) = group_users(groups, h) ]_vars
=============================================================================
